---------------------------- MODULE Spec2Model ----------------------------
(***************************************************************************)
(* State-machine model of the GrantTreasury contract                       *)
(* (src/contracts/src/grantTreasury.rs).                                   *)
(*                                                                         *)
(* Every public entry point is one action.  A panic aborts the invocation  *)
(* and the host discards every write made by it, so a failing call leaves  *)
(* the persisted entries as they were.  The bookkeeping variable `last`    *)
(* names the most recent invocation that committed, with its arguments.    *)
(* Authorisation (require_auth) is taken to succeed for the address that   *)
(* is passed in, as under mock_all_auths in the repository's tests.        *)
(***************************************************************************)
EXTENDS Integers, Sequences, FiniteSets, TLC

(***************************************************************************)
(* Bounds of the model.                                                    *)
(***************************************************************************)
\* The number of committed invocations and clock advances in a behaviour.
MaxCalls == 7

(***************************************************************************)
(* Input domains.                                                          *)
(***************************************************************************)
Admin == "admin"
Pool == "pool"
Depositor == "depositor"
Grantees == {"g1"}
Callers == {"admin", "g1"}
DepositAmounts == {0, 10, 20}
InvestAmounts == {10}
DivestAmounts == {5, 10}
GrantAmounts == {10, 30}
\* <<min_liquidity_ratio, auto_invest_threshold>>
Configs == {<<2000, 20>>, <<6000, 20>>, <<2000, 1000>>}
\* yield_claim_frequency, stored in the config and read by nothing.
YieldClaimFrequency == 86400

(***************************************************************************)
(* Program constants.                                                      *)
(***************************************************************************)
SECONDS_PER_YEAR == 365 * 24 * 60 * 60
APY == 500
BPS == 10000
\* The ledger clock advances in steps of two years.
Tick == 2 * SECONDS_PER_YEAR

VARIABLES
    initialized,          \* storage has DataKey::TreasuryConfig
    config,               \* TreasuryConfig
    total,                \* DataKey::TotalBalance
    invested,             \* DataKey::InvestedBalance
    available,            \* DataKey::AvailableBalance
    positions,            \* DataKey::InvestmentPositions
    allocations,          \* DataKey::GrantAllocations
    yield_history,        \* DataKey::YieldHistory
    last_yield_claim,     \* DataKey::LastYieldClaim
    yield_claim_counter,  \* DataKey::YieldClaimCounter
    now,                  \* env.ledger().timestamp()
    last,                 \* the most recent committed invocation
    calls,                \* committed invocations and clock advances so far
    yield_result,         \* what calculate_yield returned, called on its own
    view,                 \* the view function last called and what it returned
    proof_admin,          \* ProofVerifier: DataKey::Admin
    proof_count,          \* ProofVerifier: DataKey::ProofCount
    proofs,               \* ProofVerifier: DataKey::Proof(id), id = 1, 2, ...
    revoked_proofs        \* ProofVerifier: DataKey::RevokedProofs

vars == <<initialized, config, total, invested, available, positions,
          allocations, yield_history, last_yield_claim, yield_claim_counter,
          now, last, calls, yield_result, view, proof_admin, proof_count,
          proofs, revoked_proofs>>

\* The entries of the ProofVerifier contract.
proof_vars == <<proof_admin, proof_count, proofs, revoked_proofs>>

(***************************************************************************)
(* Arithmetic helpers.                                                     *)
(***************************************************************************)
\* i128 division truncates toward zero.
Div(a, b) == IF a >= 0 THEN a \div b ELSE -((-a) \div b)

Min(a, b) == IF a <= b THEN a ELSE b

RECURSIVE SumAmounts(_)
SumAmounts(s) == IF s = <<>> THEN 0 ELSE s[1].amount + SumAmounts(Tail(s))

(***************************************************************************)
(* The persisted entries as one record, and the result of an invocation.   *)
(***************************************************************************)
Store ==
    [initialized |-> initialized, config |-> config, total |-> total,
     invested |-> invested, available |-> available, positions |-> positions,
     allocations |-> allocations, yield_history |-> yield_history,
     last_yield_claim |-> last_yield_claim,
     yield_claim_counter |-> yield_claim_counter]

NoConfig ==
    [admin |-> "", liquidity_pool_address |-> "", min_liquidity_ratio |-> 0,
     auto_invest_threshold |-> 0, yield_claim_frequency |-> 0]

\* The instance storage before initialize: no entry is set.
EmptyStore ==
    [initialized |-> FALSE, config |-> NoConfig, total |-> 0, invested |-> 0,
     available |-> 0, positions |-> <<>>, allocations |-> <<>>,
     yield_history |-> <<>>, last_yield_claim |-> 0,
     yield_claim_counter |-> 0]

\* No view function has been called since the last committed invocation.
NoView ==
    [op |-> "none", number |-> 0, list |-> <<>>, config |-> NoConfig,
     flag |-> FALSE]

\* DataKey::Admin of the ProofVerifier is not set.
NoAddress == ""

NoEL == [ran |-> FALSE, needed |-> 0, raised |-> 0, yield |-> 0,
         credited |-> 0, debited |-> 0]

\* `st` is the storage the invocation leaves: what it wrote if it returned,
\* the storage it started from if it panicked.  `undone` tells that a
\* panicking invocation had already written an entry, which the host then
\* discarded.
Ok(s) ==
    [ok |-> TRUE, err |-> "", st |-> s, el |-> NoEL, undone |-> FALSE]
Panic(s, e) ==
    [ok |-> FALSE, err |-> e, st |-> s, el |-> NoEL, undone |-> FALSE]
\* A panic after the invocation has written s1 over s.
PanicAfterWrite(s, s1, e) ==
    [ok |-> FALSE, err |-> e, st |-> s, el |-> NoEL, undone |-> s1 # s]


(***************************************************************************)
(* calculate_yield (grantTreasury.rs 483-501).  Two truncating divisions:  *)
(* first the elapsed time as a fraction of a year in basis points, then    *)
(* the yield.                                                              *)
(*                                                                         *)
(* TimeFraction(e) is (e * 10000) / seconds_per_year of line 497.  It is   *)
(* evaluated on the whole years of e and on the rest, the rest with the    *)
(* fraction 10000 / 31536000 reduced by its gcd 2000; the quotient is the  *)
(* same and no intermediate product leaves TLC's integer range.  For the   *)
(* same reason line 498's amount * apy * time_fraction / (10000 * 10000)   *)
(* is evaluated with apy cancelled against the divisor, which is a         *)
(* multiple of it: amount * time_fraction / ((10000 * 10000) / apy).       *)
(***************************************************************************)
TimeFraction_percent(time_elapsed) ==
    (time_elapsed \div SECONDS_PER_YEAR) * 100
    + (time_elapsed % SECONDS_PER_YEAR) \div (SECONDS_PER_YEAR \div 100)

TimeFraction(time_elapsed) ==
    (time_elapsed \div SECONDS_PER_YEAR) * BPS
    + Div((time_elapsed % SECONDS_PER_YEAR) * (BPS \div 2000),
          SECONDS_PER_YEAR \div 2000)

calculate_yield(position, current_time) ==
    LET time_elapsed == current_time - position.last_yield_claim
        time_fraction == TimeFraction(time_elapsed)
    IN  IF time_elapsed = 0
        THEN 0
        ELSE Div(position.amount * time_fraction, (BPS * BPS) \div APY)

(***************************************************************************)
(* initialize (grantTreasury.rs 69-98).                                    *)
(***************************************************************************)
AlreadyInitialized_never(s) == FALSE

\* Line 77: the storage has a TreasuryConfig entry.
AlreadyInitialized(s) == s.initialized

InvalidAmount_allows_zero(amount) == amount < 0

\* Lines 104, 144, 205, 266: an amount that is not positive is refused.
InvalidAmount(amount) == amount <= 0

initialize_op(s, admin, pool, min_liquidity_ratio, auto_invest_threshold, yield_claim_frequency) ==
    IF AlreadyInitialized(s)
    THEN Panic(s, "AlreadyInitialized")
    ELSE Ok([initialized |-> TRUE,
             config |-> [admin |-> admin,
                         liquidity_pool_address |-> pool,
                         min_liquidity_ratio |-> min_liquidity_ratio,
                         auto_invest_threshold |-> auto_invest_threshold,
                         yield_claim_frequency |-> yield_claim_frequency],
             total |-> 0, invested |-> 0, available |-> 0,
             positions |-> <<>>, allocations |-> <<>>,
             yield_history |-> <<>>, last_yield_claim |-> 0,
             yield_claim_counter |-> 0])

(***************************************************************************)
(* invest_idle_funds (grantTreasury.rs 133-191).                           *)
(***************************************************************************)
IsAdmin_anyone(s, caller) == TRUE

\* Lines 140, 201, 262, 356: the caller is the administrator of the config.
IsAdmin(s, caller) == caller = s.config.admin

\* Line 157: the minimum liquidity to maintain.
MinLiquidity(s) == Div(s.total * s.config.min_liquidity_ratio, BPS)

LiquidityBreach_ignores_amount(s, amount) == s.available < MinLiquidity(s)

\* Line 159: the check that an investment of `amount` keeps the minimum.
LiquidityBreach(s, amount) == (s.available - amount) < MinLiquidity(s)

NewPosition_unstamped(s, amount, t) ==
    [amount |-> amount, pool_address |-> s.config.liquidity_pool_address,
     invested_at |-> 0, last_yield_claim |-> 0, accumulated_yield |-> 0]

\* Lines 164-170: the position an investment of `amount` creates at time t.
NewPosition(s, amount, t) ==
    [amount |-> amount, pool_address |-> s.config.liquidity_pool_address,
     invested_at |-> t, last_yield_claim |-> t, accumulated_yield |-> 0]

invest_idle_funds(s, caller, amount, t) ==
    IF ~s.initialized THEN Panic(s, "NotInitialized")
    ELSE IF ~IsAdmin(s, caller) THEN Panic(s, "Unauthorized")
    ELSE IF InvalidAmount(amount) THEN Panic(s, "InvalidAmount")
    ELSE IF amount > s.available THEN Panic(s, "InsufficientBalance")
    ELSE LET position == NewPosition(s, amount, t)
         IN  IF LiquidityBreach(s, amount)
             THEN Panic(s, "LiquidityBreach")
             ELSE Ok([s EXCEPT !.positions = Append(@, position),
                               !.invested = @ + amount,
                               !.available = @ - amount])

(***************************************************************************)
(* auto_invest_idle_funds (grantTreasury.rs 417-430): invests half of the  *)
(* available balance through invest_idle_funds, whose panics propagate.    *)
(***************************************************************************)
auto_invest_idle_funds(s, t) ==
    IF ~s.initialized THEN Panic(s, "NotInitialized")
    ELSE IF s.available >= s.config.auto_invest_threshold
         THEN invest_idle_funds(s, s.config.admin, Div(s.available, 2), t)
         ELSE Ok(s)

(***************************************************************************)
(* deposit (grantTreasury.rs 101-130).                                     *)
(***************************************************************************)
deposit_op(s, from, amount, t) ==
    IF InvalidAmount(amount) THEN Panic(s, "InvalidAmount")
    ELSE IF ~s.initialized THEN Panic(s, "NotInitialized")
    ELSE LET s1 == [s EXCEPT !.total = @ + amount,
                             !.available = @ + amount]
         IN  IF s1.available >= s1.config.auto_invest_threshold
             THEN LET r == auto_invest_idle_funds(s1, t)
                  IN  IF r.ok THEN r ELSE PanicAfterWrite(s, s1, r.err)
             ELSE Ok(s1)

(***************************************************************************)
(* divest_funds (grantTreasury.rs 194-252).                                *)
(***************************************************************************)
RemoveAt_last(seq, i) == SubSeq(seq, 1, Len(seq) - 1)

\* Line 231: positions.remove(position_index), with i = position_index + 1.
RemoveAt(seq, i) ==
    [k \in 1..(Len(seq) - 1) |-> IF k < i THEN seq[k] ELSE seq[k + 1]]

StorePosition_keeps_empty(ps, i, position) == [ps EXCEPT ![i] = position]

\* Lines 229-234: a fully divested position is removed, any other is written
\* back in place.
StorePosition(ps, i, position) ==
    IF position.amount = 0
    THEN RemoveAt(ps, i)
    ELSE [ps EXCEPT ![i] = position]

ExceedsPrincipal_never(position, amount) == FALSE

\* Line 219: no more than the principal of the position can be divested.
ExceedsPrincipal(position, amount) == amount > position.amount

DivestCredit_principal_only(amount, current_yield) == amount

\* Line 248: what a divestment adds to the available balance.
DivestCredit(amount, current_yield) == amount + current_yield

divest_funds(s, caller, amount, position_index, t) ==
    IF ~s.initialized THEN Panic(s, "NotInitialized")
    ELSE IF ~IsAdmin(s, caller) THEN Panic(s, "Unauthorized")
    ELSE IF InvalidAmount(amount) THEN Panic(s, "InvalidAmount")
    ELSE IF position_index >= Len(s.positions) THEN Panic(s, "InvalidIndex")
    ELSE LET i == position_index + 1
             position == s.positions[i]
             current_yield == calculate_yield(position, t)
             updated ==
                 [position EXCEPT !.accumulated_yield = @ + current_yield,
                                  !.amount = @ - amount]
             positions1 == StorePosition(s.positions, i, updated)
         IN  IF ExceedsPrincipal(position, amount)
             THEN Panic(s, "ExceedsPrincipal")
             ELSE Ok([s EXCEPT !.positions = positions1,
                               !.invested = @ - amount,
                               !.available =
                                   @ + DivestCredit(amount, current_yield)])


(***************************************************************************)
(* ensure_liquidity (grantTreasury.rs 433-480).                            *)
(* LiquidityWalk is the loop of lines 446-463 from position i on: `acc` is *)
(* positions_to_update, `raised` and `yld` add up divest_amount and        *)
(* yield_amount of the positions the loop divests from.                    *)
(***************************************************************************)
RECURSIVE LiquidityWalk(_, _, _, _, _, _, _)
LiquidityWalk(ps, i, remaining_needed, acc, raised, yld, t) ==
    IF i > Len(ps)
    THEN [positions |-> acc, remaining_needed |-> remaining_needed,
          raised |-> raised, yield |-> yld]
    ELSE LET position == ps[i]
             divest_amount == Min(position.amount, remaining_needed)
             yield_amount == calculate_yield(position, t)
             updated_position ==
                 [position EXCEPT !.amount = @ - divest_amount,
                                  !.accumulated_yield = @ + yield_amount]
         IN  IF remaining_needed <= 0
             THEN LiquidityWalk(ps, i + 1, remaining_needed,
                                Append(acc, position), raised, yld, t)
             ELSE LiquidityWalk(ps, i + 1,
                                remaining_needed - (divest_amount + yield_amount),
                                IF divest_amount < position.amount
                                THEN Append(acc, updated_position)
                                ELSE acc,
                                raised + divest_amount, yld + yield_amount, t)

ensure_liquidity(s, needed, t) ==
    IF needed > 0 /\ needed > s.available
    THEN LET w == LiquidityWalk(s.positions, 1, needed, <<>>, 0, 0, t)
             debit == needed - w.remaining_needed
         IN  [st |-> [s EXCEPT !.positions = w.positions,
                               !.invested = @ - debit,
                               !.available = @ + needed],
              el |-> [ran |-> TRUE, needed |-> needed, raised |-> w.raised,
                      yield |-> w.yield, credited |-> needed,
                      debited |-> debit]]
    ELSE [st |-> s, el |-> NoEL]

(***************************************************************************)
(* allocate_grant (grantTreasury.rs 255-299).  available_balance is read   *)
(* once (line 270) and that value, less amount, is what line 296 stores.   *)
(***************************************************************************)
AllocateDebit_none(available_balance, amount) == available_balance

\* Line 295: the grant is taken from the balance read at line 270.
AllocateDebit(available_balance, amount) == available_balance - amount

NewAllocation_pending(grantee, amount, t) ==
    [grantee |-> grantee, amount |-> amount, allocated_at |-> t,
     status |-> "Pending"]

\* Lines 281-286: the allocation a grant of `amount` creates at time t.
NewAllocation(grantee, amount, t) ==
    [grantee |-> grantee, amount |-> amount, allocated_at |-> t,
     status |-> "Approved"]

allocate_grant(s, caller, grantee, amount, t) ==
    IF ~s.initialized THEN Panic(s, "NotInitialized")
    ELSE IF ~IsAdmin(s, caller) THEN Panic(s, "Unauthorized")
    ELSE IF InvalidAmount(amount) THEN Panic(s, "InvalidAmount")
    ELSE LET available_balance == s.available
             e == IF amount > available_balance
                  THEN ensure_liquidity(s, amount - available_balance, t)
                  ELSE [st |-> s, el |-> NoEL]
             allocation == NewAllocation(grantee, amount, t)
         IN  [ok |-> TRUE, err |-> "", el |-> e.el, undone |-> FALSE,
              st |-> [e.st EXCEPT !.allocations = Append(@, allocation),
                                  !.available =
                                      AllocateDebit(available_balance,
                                                    amount)]]

(***************************************************************************)
(* withdraw_grant (grantTreasury.rs 302-346).  The balance is read again   *)
(* after ensure_liquidity (line 339) before amount is taken from it.       *)
(***************************************************************************)
IsGrantee_anyone(allocation, grantee) == TRUE

\* Line 315: the caller is the grantee the allocation records.
IsGrantee(allocation, grantee) == allocation.grantee = grantee

Withdrawable_any_status(allocation) == TRUE

Withdrawable_pending_only(allocation) == allocation.status = "Pending"

\* Line 319: only an Approved allocation can be withdrawn.
Withdrawable(allocation) == allocation.status = "Approved"

DisburseDebit_none(available_balance, amount) == available_balance

\* Lines 339-343: the disbursed amount is taken from the available balance.
DisburseDebit(available_balance, amount) == available_balance - amount

withdraw_grant(s, grantee, allocation_id, t) ==
    IF allocation_id >= Len(s.allocations)
    THEN Panic(s, "InvalidAllocationId")
    ELSE LET i == allocation_id + 1
             allocation == s.allocations[i]
             e == IF allocation.amount > s.available
                  THEN ensure_liquidity(s, allocation.amount - s.available, t)
                  ELSE [st |-> s, el |-> NoEL]
         IN  IF ~IsGrantee(allocation, grantee) THEN Panic(s, "Unauthorized")
             ELSE IF ~Withdrawable(allocation)
             THEN Panic(s, "InvalidState")
             ELSE [ok |-> TRUE, err |-> "", el |-> e.el, undone |-> FALSE,
                   st |-> [e.st EXCEPT
                              !.allocations[i].status = "Disbursed",
                              !.available =
                                  DisburseDebit(@, allocation.amount)]]

(***************************************************************************)
(* claim_yield (grantTreasury.rs 349-414).  ClaimWalk is the loop of lines *)
(* 367-392 from position i on.                                             *)
(***************************************************************************)
ClaimedPosition_unstamped(position, yield_amount, t) ==
    [position EXCEPT !.accumulated_yield = @ + yield_amount]

\* Lines 373-375: the position claim_yield writes back.
ClaimedPosition(position, yield_amount, t) ==
    [position EXCEPT !.accumulated_yield = @ + yield_amount,
                     !.last_yield_claim = t]

HasYield_always(yield_amount) == TRUE

\* Line 369: only a positive yield is settled and recorded.
HasYield(yield_amount) == yield_amount > 0

RECURSIVE ClaimWalk(_, _, _, _, _)
ClaimWalk(ps, i, history, total_yield, t) ==
    IF i > Len(ps)
    THEN [positions |-> ps, yield_history |-> history,
          total_yield |-> total_yield]
    ELSE LET position == ps[i]
             yield_amount == calculate_yield(position, t)
             updated_position == ClaimedPosition(position, yield_amount, t)
             yield_record ==
                 [amount |-> yield_amount, claimed_at |-> t,
                  pool_address |-> position.pool_address, apy |-> 500]
         IN  IF HasYield(yield_amount)
             THEN ClaimWalk([ps EXCEPT ![i] = updated_position], i + 1,
                            Append(history, yield_record),
                            total_yield + yield_amount, t)
             ELSE ClaimWalk(ps, i + 1, history, total_yield, t)

HistoryAtStart_fresh(s) == <<>>

\* Lines 386-388: the records are appended to the stored yield history.
HistoryAtStart(s) == s.yield_history

claim_yield(s, caller, t) ==
    IF ~s.initialized THEN Panic(s, "NotInitialized")
    ELSE IF ~IsAdmin(s, caller) THEN Panic(s, "Unauthorized")
    ELSE LET w == ClaimWalk(s.positions, 1, HistoryAtStart(s), 0, t)
         IN  Ok([s EXCEPT !.positions = w.positions,
                          !.yield_history = w.yield_history,
                          !.available = @ + w.total_yield,
                          !.last_yield_claim = t,
                          !.yield_claim_counter = @ + 1])

(***************************************************************************)
(* The invocations as actions.  Commit stores what a successful invocation *)
(* wrote and records it in `last`; a panicking one leaves every entry, and *)
(* `last`, as they were.                                                   *)
(***************************************************************************)
\* The record of a committed invocation: its name, its arguments and what
\* ensure_liquidity did in it.
Call(op, amount, index, r) ==
    [op |-> op, amount |-> amount, index |-> index, el |-> r.el]

Commit(r, call) ==
    /\ calls < MaxCalls
    /\ calls' = IF r.ok THEN calls + 1 ELSE calls
    /\ initialized' = r.st.initialized
    /\ config' = r.st.config
    /\ total' = r.st.total
    /\ invested' = r.st.invested
    /\ available' = r.st.available
    /\ positions' = r.st.positions
    /\ allocations' = r.st.allocations
    /\ yield_history' = r.st.yield_history
    /\ last_yield_claim' = r.st.last_yield_claim
    /\ yield_claim_counter' = r.st.yield_claim_counter
    /\ last' = IF r.ok THEN call ELSE last
    /\ view' = IF r.ok THEN NoView ELSE view
    /\ UNCHANGED <<now, yield_result, proof_vars>>

Init ==
    /\ initialized = FALSE
    /\ config = NoConfig
    /\ total = 0
    /\ invested = 0
    /\ available = 0
    /\ positions = <<>>
    /\ allocations = <<>>
    /\ yield_history = <<>>
    /\ last_yield_claim = 0
    /\ yield_claim_counter = 0
    /\ now = 0
    /\ calls = 0
    /\ last = [op |-> "none", amount |-> 0, index |-> 0, el |-> NoEL]
    /\ yield_result = 0
    /\ view = NoView
    /\ proof_admin = NoAddress
    /\ proof_count = 0
    /\ proofs = <<>>
    /\ revoked_proofs = <<>>

Initialize ==
    \E c \in Configs :
        LET r == initialize_op(Store, Admin, Pool, c[1], c[2],
                              YieldClaimFrequency)
        IN  Commit(r, Call("initialize", 0, 0, r))

Deposit ==
    \E amount \in DepositAmounts :
        LET r == deposit_op(Store, Depositor, amount, now)
        IN  Commit(r, Call("deposit", amount, 0, r))

InvestIdleFunds ==
    \E caller \in Callers, amount \in InvestAmounts :
        LET r == invest_idle_funds(Store, caller, amount, now)
        IN  Commit(r, Call("invest_idle_funds", amount, 0, r))

DivestFunds ==
    \E caller \in Callers, amount \in DivestAmounts,
       position_index \in 0..Len(positions) :
        LET r == divest_funds(Store, caller, amount, position_index, now)
        IN  Commit(r, Call("divest_funds", amount, position_index, r))

AllocateGrant ==
    \E caller \in Callers, grantee \in Grantees, amount \in GrantAmounts :
        LET r == allocate_grant(Store, caller, grantee, amount, now)
        IN  Commit(r, Call("allocate_grant", amount, 0, r))

WithdrawGrant ==
    \E grantee \in Callers, allocation_id \in 0..Len(allocations) :
        LET r == withdraw_grant(Store, grantee, allocation_id, now)
        IN  Commit(r, Call("withdraw_grant", 0, allocation_id, r))

ClaimYield ==
    \E caller \in Callers :
        LET r == claim_yield(Store, caller, now)
        IN  Commit(r, Call("claim_yield", 0, 0, r))

\* The ledger clock is monotonic and moves between invocations.
AdvanceTime ==
    /\ calls < MaxCalls
    /\ calls' = calls + 1
    /\ now' = now + Tick
    /\ UNCHANGED <<initialized, config, total, invested, available, positions,
                   allocations, yield_history, last_yield_claim,
                   yield_claim_counter, last, yield_result, view, proof_vars>>

Next ==
    \/ Initialize
    \/ Deposit
    \/ InvestIdleFunds
    \/ DivestFunds
    \/ AllocateGrant
    \/ WithdrawGrant
    \/ ClaimYield
    \/ AdvanceTime

Spec == Init /\ [][Next]_vars

(***************************************************************************)
(* The same contract under a ledger clock that can also jump by twenty     *)
(* years between invocations: nothing bounds the time between two calls,   *)
(* and the yield a position accrues grows with it.                         *)
(***************************************************************************)
LongTick == 10 * Tick

\* The jump is taken in the first twenty years, which keeps the clock within
\* TLC's integers.
AdvanceTimeLong ==
    /\ calls < MaxCalls
    /\ now < LongTick
    /\ calls' = calls + 1
    /\ now' = now + LongTick
    /\ UNCHANGED <<initialized, config, total, invested, available, positions,
                   allocations, yield_history, last_yield_claim,
                   yield_claim_counter, last, yield_result, view, proof_vars>>

LongNext ==
    \/ Next
    \/ AdvanceTimeLong

LongSpec == Init /\ [][LongNext]_vars

(***************************************************************************)
(* The contract under fair scheduling of the grantees.  The administrator  *)
(* and the depositor make a bounded number of calls; the grantee of an     *)
(* allocation can call withdraw_grant for it at any time, and the call is  *)
(* not counted against that number.  GranteeWithdraws(i) is the call of    *)
(* withdraw_grant by the grantee recorded in allocation i (allocation_id   *)
(* i - 1), which is eventually made while the allocation is Approved.      *)
(***************************************************************************)
GranteeWithdraws(i) ==
    /\ i <= Len(allocations)
    /\ allocations[i].status = "Approved"
    /\ LET r == withdraw_grant(Store, allocations[i].grantee, i - 1, now)
       IN  /\ r.ok
           /\ initialized' = r.st.initialized
           /\ config' = r.st.config
           /\ total' = r.st.total
           /\ invested' = r.st.invested
           /\ available' = r.st.available
           /\ positions' = r.st.positions
           /\ allocations' = r.st.allocations
           /\ yield_history' = r.st.yield_history
           /\ last_yield_claim' = r.st.last_yield_claim
           /\ yield_claim_counter' = r.st.yield_claim_counter
           /\ last' = Call("withdraw_grant", 0, i - 1, r)
           /\ view' = NoView
           /\ UNCHANGED <<now, calls, yield_result, proof_vars>>

\* Next is taken MaxCalls - 3 times at most and initialize is the first call
\* that commits, so no more allocations than this are ever recorded.
FairAllocations == MaxCalls - 4

FairNext ==
    \/ calls < MaxCalls - 3 /\ Next
    \/ \E i \in 1..FairAllocations : GranteeWithdraws(i)

FairSpec ==
    /\ Init
    /\ [][FairNext]_vars
    /\ \A i \in 1..FairAllocations : WF_vars(GranteeWithdraws(i))

(***************************************************************************)
(* The view functions (grantTreasury.rs 503-584).  None of them writes an  *)
(* entry.  `view` keeps the function last called and what it returned; a   *)
(* committed invocation clears it.  get_treasury_config and                *)
(* should_auto_invest panic on a treasury that is not initialized.         *)
(***************************************************************************)
get_total_balance(s) == s.total
get_available_balance(s) == s.available
get_invested_balance(s) == s.invested
get_investment_positions(s) == s.positions
get_grant_allocations(s) == s.allocations
get_yield_history(s) == s.yield_history
get_treasury_config(s) == s.config

RECURSIVE SumAccruing(_, _)
SumAccruing(ps, t) ==
    IF ps = <<>> THEN 0
    ELSE ps[1].accumulated_yield + calculate_yield(ps[1], t)
         + SumAccruing(Tail(ps), t)

get_accumulated_yield_accruing(s) == SumAccruing(s.positions, now)

RECURSIVE SumAccumulated(_)
SumAccumulated(ps) ==
    IF ps = <<>> THEN 0
    ELSE ps[1].accumulated_yield + SumAccumulated(Tail(ps))

get_accumulated_yield(s) == SumAccumulated(s.positions)

get_apy == APY

should_auto_invest(s) == s.available >= s.config.auto_invest_threshold

\* A view function returns: the store, the clock and the ProofVerifier
\* entries stay as they are.
Returns(v) ==
    /\ view' = v
    /\ UNCHANGED <<initialized, config, total, invested, available, positions,
                   allocations, yield_history, last_yield_claim,
                   yield_claim_counter, now, last, calls, yield_result,
                   proof_vars>>

GetTotalBalance ==
    Returns([NoView EXCEPT !.op = "get_total_balance",
                           !.number = get_total_balance(Store)])

GetAvailableBalance ==
    Returns([NoView EXCEPT !.op = "get_available_balance",
                           !.number = get_available_balance(Store)])

GetInvestedBalance ==
    Returns([NoView EXCEPT !.op = "get_invested_balance",
                           !.number = get_invested_balance(Store)])

GetInvestmentPositions ==
    Returns([NoView EXCEPT !.op = "get_investment_positions",
                           !.list = get_investment_positions(Store)])

GetGrantAllocations ==
    Returns([NoView EXCEPT !.op = "get_grant_allocations",
                           !.list = get_grant_allocations(Store)])

GetYieldHistory ==
    Returns([NoView EXCEPT !.op = "get_yield_history",
                           !.list = get_yield_history(Store)])

GetTreasuryConfig ==
    /\ initialized
    /\ Returns([NoView EXCEPT !.op = "get_treasury_config",
                              !.config = get_treasury_config(Store)])

GetAccumulatedYield ==
    Returns([NoView EXCEPT !.op = "get_accumulated_yield",
                           !.number = get_accumulated_yield(Store)])

GetApy ==
    Returns([NoView EXCEPT !.op = "get_apy", !.number = get_apy])

ShouldAutoInvest ==
    /\ initialized
    /\ Returns([NoView EXCEPT !.op = "should_auto_invest",
                              !.flag = should_auto_invest(Store)])

\* The invocations, taken while two of the MaxCalls steps are left, and the
\* view functions, which can be called at any point.
ViewNext ==
    \/ calls < MaxCalls - 2 /\ Next
    \/ GetTotalBalance
    \/ GetAvailableBalance
    \/ GetInvestedBalance
    \/ GetInvestmentPositions
    \/ GetGrantAllocations
    \/ GetYieldHistory
    \/ GetTreasuryConfig
    \/ GetAccumulatedYield
    \/ GetApy
    \/ ShouldAutoInvest

ViewSpec == Init /\ [][ViewNext]_vars

(***************************************************************************)
(* The ProofVerifier contract (src/contracts/src/proof_verifier.rs).       *)
(* Bytes and strings are sequences of small numbers.  The proofs stored    *)
(* under DataKey::Proof(1), Proof(2), ... are the sequence `proofs`: the   *)
(* only key issue_proof writes is ProofCount + 1, and ProofCount is at     *)
(* most the number of keys written so far.  An Option is a sequence of     *)
(* length 0 or 1.                                                          *)
(***************************************************************************)
ProofAdmin == "admin"
ProofAddresses == {"admin", "issuer", "other"}
ProofIssuers == {"issuer"}
ProofVerifiers == {"other"}
ProofRequests ==
    {[subject |-> "subject", proof_type |-> <<1>>, event_data |-> <<1, 2>>,
      metadata |-> <<>>],
     [subject |-> "subject", proof_type |-> <<2>>, event_data |-> <<1>>,
      metadata |-> << <<(<<2>>), (<<3>>)>> >>]}
Reason == <<7>>

PStore ==
    [admin |-> proof_admin, proof_count |-> proof_count, proofs |-> proofs,
     revoked_proofs |-> revoked_proofs]

Returned(s, v) == [ok |-> TRUE, err |-> "", ret |-> v, st |-> s]
Aborted(s, e) == [ok |-> FALSE, err |-> e, ret |-> FALSE, st |-> s]

\* Lines 82-86 and 128-132: event_data followed by the key and the value of
\* every metadata entry.
RECURSIVE HashInput(_, _)
HashInput(event_data, metadata) ==
    IF metadata = <<>> THEN event_data
    ELSE HashInput(event_data \o metadata[1][1] \o metadata[1][2],
                   Tail(metadata))

\* env.crypto().sha256: equal digests for equal inputs only.
Sha256(input) == <<"sha256", input>>

\* storage set of DataKey::Proof(proof_id).
SetProof(ps, proof_id, proof) ==
    IF proof_id <= Len(ps)
    THEN [ps EXCEPT ![proof_id] = proof]
    ELSE Append(ps, proof)

HasProof(s, proof_id) == proof_id \in 1..Len(s.proofs)

\* initialize (proof_verifier.rs 64-72).
proof_initialize(s, admin) ==
    IF s.admin # NoAddress
    THEN Aborted(s, "AlreadyInitialized")
    ELSE Returned([s EXCEPT !.admin = admin, !.proof_count = 0,
                            !.revoked_proofs = <<>>], TRUE)

\* issue_proof (proof_verifier.rs 75-112).
issue_proof(s, issuer, request, t) ==
    LET proof_id == s.proof_count + 1
        hash == Sha256(HashInput(request.event_data, request.metadata))
        proof == [id |-> proof_id, issuer |-> issuer,
                  subject |-> request.subject,
                  proof_type |-> request.proof_type,
                  event_data |-> request.event_data, timestamp |-> t,
                  verified |-> FALSE, hash |-> hash, revoked |-> FALSE,
                  metadata |-> request.metadata]
    IN  Returned([s EXCEPT !.proofs = SetProof(@, proof_id, proof),
                           !.proof_count = proof_id], proof_id)

\* verify_proof (proof_verifier.rs 115-152).
verify_proof(s, verifier, proof_id) ==
    IF ~HasProof(s, proof_id) THEN Aborted(s, "ProofNotFound")
    ELSE LET proof == s.proofs[proof_id]
             computed_hash ==
                 Sha256(HashInput(proof.event_data, proof.metadata))
         IN  IF proof.revoked THEN Returned(s, FALSE)
             ELSE IF computed_hash # proof.hash THEN Returned(s, FALSE)
             ELSE IF ~proof.verified
             THEN Returned([s EXCEPT !.proofs[proof_id].verified = TRUE],
                           TRUE)
             ELSE Returned(s, TRUE)

\* revoke_proof (proof_verifier.rs 162-199).
revoke_proof(s, revoker, proof_id, reason) ==
    IF s.admin = NoAddress THEN Aborted(s, "AdminNotFound")
    ELSE IF ~HasProof(s, proof_id) THEN Aborted(s, "ProofNotFound")
    ELSE LET proof == s.proofs[proof_id]
         IN  IF revoker # s.admin /\ revoker # proof.issuer
             THEN Aborted(s, "Unauthorized")
             ELSE IF proof.revoked THEN Aborted(s, "AlreadyRevoked")
             ELSE Returned([s EXCEPT !.proofs[proof_id].revoked = TRUE,
                                     !.proofs[proof_id].verified = FALSE,
                                     !.revoked_proofs = Append(@, proof_id)],
                           TRUE)

\* batch_operations (proof_verifier.rs 202-270) from operation i on; a panic
\* in one operation aborts the whole batch.
RECURSIVE BatchWalk(_, _, _, _, _, _)
BatchWalk(s0, s, operator, operations, results, t) ==
    IF operations = <<>> THEN Returned(s, results)
    ELSE LET operation == operations[1]
             failed == [success |-> FALSE, proof_id |-> <<>>]
             r == IF operation.operation_type = 1
                     /\ operation.proof_request # <<>>
                  THEN issue_proof(s, operator, operation.proof_request[1], t)
                  ELSE IF operation.operation_type = 2
                          /\ operation.proof_id # <<>>
                  THEN verify_proof(s, operator, operation.proof_id[1])
                  ELSE IF operation.operation_type = 3
                          /\ operation.proof_id # <<>>
                  THEN revoke_proof(s, operator, operation.proof_id[1],
                                    Reason)
                  ELSE Returned(s, FALSE)
             result ==
                 IF operation.operation_type = 1
                    /\ operation.proof_request # <<>>
                 THEN [success |-> TRUE, proof_id |-> <<r.ret>>]
                 ELSE IF operation.operation_type = 2
                         /\ operation.proof_id # <<>>
                 THEN [success |-> r.ret, proof_id |-> operation.proof_id]
                 ELSE IF operation.operation_type = 3
                         /\ operation.proof_id # <<>>
                 THEN [success |-> TRUE, proof_id |-> operation.proof_id]
                 ELSE failed
         IN  IF ~r.ok THEN Aborted(s0, r.err)
             ELSE BatchWalk(s0, r.st, operator, Tail(operations),
                            Append(results, result), t)

batch_operations(s, operator, operations, t) ==
    BatchWalk(s, s, operator, operations, <<>>, t)

\* is_proof_valid (proof_verifier.rs 321-339).
is_proof_valid(s, proof_id) ==
    IF ~HasProof(s, proof_id) THEN Aborted(s, "ProofNotFound")
    ELSE LET proof == s.proofs[proof_id]
         IN  IF proof.revoked THEN Returned(s, FALSE)
             ELSE Returned(s, Sha256(HashInput(proof.event_data,
                                               proof.metadata)) = proof.hash)

\* update_admin (proof_verifier.rs 352-369).
update_admin(s, current_admin, new_admin) ==
    IF s.admin = NoAddress THEN Aborted(s, "AdminNotFound")
    ELSE IF current_admin # s.admin THEN Aborted(s, "Unauthorized")
    ELSE Returned([s EXCEPT !.admin = new_admin], TRUE)

\* The batches tried: two issues, verify and revoke of one proof, a revoke
\* followed by an issue, and operations that name no proof or no known type.
BatchOp(type, proof_id, proof_request) ==
    [operation_type |-> type, proof_id |-> proof_id,
     proof_request |-> proof_request]

Batches ==
    LET request == CHOOSE q \in ProofRequests : q.metadata = <<>>
    IN  {<<BatchOp(1, <<>>, <<request>>), BatchOp(1, <<>>, <<request>>)>>,
         <<BatchOp(2, <<1>>, <<>>), BatchOp(3, <<1>>, <<>>)>>,
         <<BatchOp(3, <<1>>, <<>>), BatchOp(1, <<>>, <<request>>)>>,
         <<BatchOp(2, <<>>, <<>>), BatchOp(9, <<1>>, <<>>)>>}

ProofCommit(r) ==
    /\ calls < MaxCalls - 2
    /\ calls' = IF r.ok THEN calls + 1 ELSE calls
    /\ proof_admin' = r.st.admin
    /\ proof_count' = r.st.proof_count
    /\ proofs' = r.st.proofs
    /\ revoked_proofs' = r.st.revoked_proofs
    /\ UNCHANGED <<initialized, config, total, invested, available, positions,
                   allocations, yield_history, last_yield_claim,
                   yield_claim_counter, now, last, yield_result, view>>

ProofInitialize == ProofCommit(proof_initialize(PStore, ProofAdmin))

IssueProof ==
    \E issuer \in ProofIssuers, request \in ProofRequests :
        ProofCommit(issue_proof(PStore, issuer, request, now))

VerifyProof ==
    \E verifier \in ProofVerifiers, proof_id \in 0..(Len(proofs) + 1) :
        ProofCommit(verify_proof(PStore, verifier, proof_id))

RevokeProof ==
    \E revoker \in ProofAddresses, proof_id \in 0..(Len(proofs) + 1) :
        ProofCommit(revoke_proof(PStore, revoker, proof_id, Reason))

BatchOperations ==
    \E operator \in ProofAddresses, operations \in Batches :
        ProofCommit(batch_operations(PStore, operator, operations, now))

UpdateAdmin ==
    \E current_admin \in ProofAddresses, new_admin \in ProofAddresses :
        ProofCommit(update_admin(PStore, current_admin, new_admin))

ProofNext ==
    \/ ProofInitialize
    \/ IssueProof
    \/ VerifyProof
    \/ RevokeProof
    \/ BatchOperations
    \/ UpdateAdmin
    \/ calls < MaxCalls - 2 /\ AdvanceTime

ProofSpec == Init /\ [][ProofNext]_vars

(***************************************************************************)
(* calculate_yield on its own.  The treasury has been initialized, funded  *)
(* and given one position at time `start`, with a principal out of         *)
(* YieldPrincipals; the ledger clock stands `elapsed` seconds later, and   *)
(* the one step evaluates the function for that position.                  *)
(***************************************************************************)
YieldPrincipals == {1, 3, 7, 10, 30, 100, 1000}
YieldStarts == {0, 86400}
YieldElapsed ==
    {0, 1, 3153, 3154, 86400, 21024000, SECONDS_PER_YEAR - 1,
     SECONDS_PER_YEAR, SECONDS_PER_YEAR + 1, 2 * SECONDS_PER_YEAR}

\* initialize(admin, pool, 2000, 1000000, _); deposit(5 * principal);
\* invest_idle_funds(admin, principal), all at time start.
YieldStore(principal, start) ==
    LET s0 == initialize_op(EmptyStore, Admin, Pool, 2000, 1000000,
                            YieldClaimFrequency).st
        s1 == deposit_op(s0, Depositor, 5 * principal, start).st
    IN  invest_idle_funds(s1, Admin, principal, start).st

YieldInit ==
    \E principal \in YieldPrincipals, start \in YieldStarts,
       elapsed \in YieldElapsed :
        LET s == YieldStore(principal, start)
        IN  /\ initialized = s.initialized
            /\ config = s.config
            /\ total = s.total
            /\ invested = s.invested
            /\ available = s.available
            /\ positions = s.positions
            /\ allocations = s.allocations
            /\ yield_history = s.yield_history
            /\ last_yield_claim = s.last_yield_claim
            /\ yield_claim_counter = s.yield_claim_counter
            /\ now = start + elapsed
            /\ calls = 0
            /\ last = [op |-> "none", amount |-> 0, index |-> 0, el |-> NoEL]
            /\ yield_result = 0
            /\ view = NoView
            /\ proof_admin = NoAddress
            /\ proof_count = 0
            /\ proofs = <<>>
            /\ revoked_proofs = <<>>

CalculateYield ==
    /\ calls = 0
    /\ calls' = 1
    /\ yield_result' = calculate_yield(positions[1], now)
    /\ UNCHANGED <<initialized, config, total, invested, available, positions,
                   allocations, yield_history, last_yield_claim,
                   yield_claim_counter, now, last, view, proof_vars>>

YieldNext == CalculateYield

YieldSpec == YieldInit /\ [][YieldNext]_vars


(***************************************************************************)
(* Properties.                                                             *)
(***************************************************************************)
\* A step that commits the invocation `op`.
Committed(op) == calls' = calls + 1 /\ now' = now /\ last'.op = op

AnyGrantee == CHOOSE g \in Grantees : TRUE

\* C1: in every reachable state total = invested + available.
C1_BalanceIdentity == total = invested + available

\* C2: available is never negative.
C2_AvailableNonNegative == available >= 0

\* C3: invested is the sum of the principal of the positions in the store
\* (and so is not negative).
C3_InvestedIsPrincipalSum == invested = SumAmounts(positions) /\ invested >= 0

\* C4: every position in the store has principal > 0.
C4_PositivePrincipal == \A i \in 1..Len(positions) : positions[i].amount > 0

\* C4 witness: after a divestment the store holds, at the divested index, a
\* position with less principal than any investment creates: a position
\* that was divested in part and kept.
C4_Witness ==
    /\ last.op = "divest_funds"
    /\ last.index < Len(positions)
    /\ \A amount \in InvestAmounts :
           positions[last.index + 1].amount < amount

\* C5: after a successful invest_idle_funds, directly or as the auto-invest
\* step of a deposit, available >= floor(total * min_liquidity_ratio / 10000);
\* an investment that would leave less fails and changes nothing.
C5_LiquidityLaw ==
    /\ last.op = "invest_idle_funds" =>
           available >= Div(total * config.min_liquidity_ratio, BPS)
    /\ \A amount \in InvestAmounts :
           LET r == invest_idle_funds(Store, Admin, amount, now)
           IN  /\ r.ok => r.st.available
                              >= Div(r.st.total * config.min_liquidity_ratio, BPS)
               /\ (initialized
                   /\ available - amount
                          < Div(total * config.min_liquidity_ratio, BPS))
                      => ~r.ok /\ r.st = Store
    /\ \A amount \in DepositAmounts :
           LET r == deposit_op(Store, Depositor, amount, now)
           IN  (r.ok /\ Len(r.st.positions) > Len(positions))
                   => r.st.available
                          >= Div(r.st.total * config.min_liquidity_ratio, BPS)

\* C5 witness: an investment committed under a positive minimum liquidity.
C5_Witness ==
    /\ last.op = "invest_idle_funds"
    /\ Div(total * config.min_liquidity_ratio, BPS) > 0
    /\ \E amount \in InvestAmounts :
           /\ amount <= available
           /\ ~invest_idle_funds(Store, Admin, amount, now).ok

\* C6: a deposit of amount > 0 on an initialized treasury never fails; when
\* the auto-invest step cannot be performed it still adds amount to total and
\* to available and creates no position.
C6_DepositNeverFailsOnAutoInvest ==
    \A amount \in DepositAmounts :
        (initialized /\ amount > 0) =>
            LET r == deposit_op(Store, Depositor, amount, now)
                s1 == [Store EXCEPT !.total = @ + amount,
                                    !.available = @ + amount]
                skipped ==
                    \/ s1.available < config.auto_invest_threshold
                    \/ ~invest_idle_funds(s1, Admin, Div(s1.available, 2),
                                          now).ok
            IN  /\ r.ok
                /\ skipped => r.st = s1

\* C7: allocate_grant whose shortfall exceeds the principal of all open
\* positions fails with LiquidityUnavailable and changes nothing.
C7_AllocateAllOrNothing ==
    \A amount \in GrantAmounts :
        (initialized /\ amount - available > SumAmounts(positions)) =>
            LET r == allocate_grant(Store, Admin, AnyGrantee, amount, now)
            IN  ~r.ok /\ r.err = "LiquidityUnavailable" /\ r.st = Store

\* C8: when ensure_liquidity has raised what was needed, it has credited
\* available by total_raised + total_yield and debited invested by
\* total_raised.
C8_EnsureLiquidityExact ==
    (last.el.ran /\ last.el.raised >= last.el.needed) =>
        /\ last.el.credited = last.el.raised + last.el.yield
        /\ last.el.debited = last.el.raised

\* C9: a successful withdraw_grant changes only the status of its allocation.
C9_WithdrawIsPureTransition ==
    [][Committed("withdraw_grant") =>
          /\ available' = available
          /\ invested' = invested
          /\ total' = total
          /\ positions' = positions
          /\ Len(allocations') = Len(allocations)
          /\ \A k \in 1..Len(allocations) :
                 IF k = last'.index + 1
                 THEN /\ allocations[k].status = "Approved"
                      /\ allocations'[k] =
                             [allocations[k] EXCEPT !.status = "Disbursed"]
                 ELSE allocations'[k] = allocations[k]]_vars

\* C10: a successful withdraw_grant of an allocation of amount a, with
\* a <= available before the call, leaves available lower by a and the
\* allocation Disbursed.
C10_WithdrawDebitsAvailable ==
    [][(/\ Committed("withdraw_grant")
        /\ allocations[last'.index + 1].amount <= available) =>
          /\ available' = available - allocations[last'.index + 1].amount
          /\ allocations'[last'.index + 1].status = "Disbursed"]_vars

\* C10 witness: a withdrawal that needed no liquidity enforcement and left
\* available at or above zero, so the amount was covered before the call.
C10_Witness ==
    /\ last.op = "withdraw_grant"
    /\ ~last.el.ran
    /\ available >= 0
    /\ allocations[last.index + 1].status = "Disbursed"
    /\ allocations[last.index + 1].amount > 0

\* C11: withdraw_grant on an allocation that is not Approved fails with
\* InvalidState and changes nothing; a withdrawal commits only on an Approved
\* allocation, and an allocation that is Disbursed never changes again, so
\* its amount is paid out at most once.
C11_DisbursedAtMostOnce ==
    /\ [](\A k \in 1..Len(allocations) :
              allocations[k].status # "Approved" =>
                  LET r == withdraw_grant(Store, allocations[k].grantee,
                                          k - 1, now)
                  IN  ~r.ok /\ r.err = "InvalidState" /\ r.st = Store)
    /\ [][/\ Committed("withdraw_grant") =>
                 allocations[last'.index + 1].status = "Approved"
          /\ \A k \in 1..Len(allocations) :
                 allocations[k].status = "Disbursed" =>
                     allocations'[k] = allocations[k]]_vars

\* C11 witness: an allocation has just been withdrawn and a second
\* withdrawal of it by its grantee is refused.
C11_Witness ==
    /\ last.op = "withdraw_grant"
    /\ allocations[last.index + 1].status = "Disbursed"
    /\ withdraw_grant(Store, allocations[last.index + 1].grantee,
                      last.index, now).err = "InvalidState"

\* C12: withdraw_grant(g, id) by an identity that is not the grantee of
\* allocation id, or with an id that is no allocation index, fails and leaves
\* every allocation and every balance as they were.
C12_OnlyRecordedGrantee ==
    \A g \in Callers, id \in 0..(Len(allocations) + 1) :
        LET r == withdraw_grant(Store, g, id, now)
        IN  (id >= Len(allocations) \/ allocations[id + 1].grantee # g)
                => ~r.ok /\ r.st = Store

\* C12 witness: an Approved allocation that its grantee can withdraw and the
\* administrator, who is not its grantee, cannot.
C12_Witness ==
    \E k \in 1..Len(allocations) :
        /\ allocations[k].status = "Approved"
        /\ allocations[k].grantee # Admin
        /\ withdraw_grant(Store, allocations[k].grantee, k - 1, now).ok
        /\ withdraw_grant(Store, Admin, k - 1, now).err = "Unauthorized"

\* Argument values for the administrator-only entry points, valid and not.
AnyAmounts ==
    {-1, 0} \cup InvestAmounts \cup DivestAmounts \cup GrantAmounts

\* C13: on an initialized treasury invest_idle_funds, divest_funds,
\* allocate_grant and claim_yield called by anyone but config.admin fail with
\* Unauthorized and change nothing, whatever the arguments.
C13_AdminOnly ==
    initialized =>
        \A caller \in Callers \ {config.admin} :
            /\ \A amount \in AnyAmounts :
                   /\ LET r == invest_idle_funds(Store, caller, amount, now)
                      IN  ~r.ok /\ r.err = "Unauthorized" /\ r.st = Store
                   /\ LET r == allocate_grant(Store, caller, AnyGrantee,
                                              amount, now)
                      IN  ~r.ok /\ r.err = "Unauthorized" /\ r.st = Store
                   /\ \A position_index \in 0..Len(positions) :
                          LET r == divest_funds(Store, caller, amount,
                                                position_index, now)
                          IN  ~r.ok /\ r.err = "Unauthorized" /\ r.st = Store
            /\ LET r == claim_yield(Store, caller, now)
               IN  ~r.ok /\ r.err = "Unauthorized" /\ r.st = Store

\* C13 witness: a state where the administrator could invest, divest,
\* allocate and claim, and another caller is refused.
C13_Witness ==
    /\ initialized
    /\ Len(positions) > 0
    /\ \E caller \in Callers \ {config.admin} :
           \E amount \in InvestAmounts :
               /\ invest_idle_funds(Store, config.admin, amount, now).ok
               /\ divest_funds(Store, config.admin, amount, 0, now).ok
               /\ invest_idle_funds(Store, caller, amount, now).err
                      = "Unauthorized"
               /\ divest_funds(Store, caller, amount, 0, now).err
                      = "Unauthorized"

\* The yield the open positions settle at time t, added up.
RECURSIVE SettledYield(_, _)
SettledYield(ps, t) ==
    IF ps = <<>> THEN 0
    ELSE calculate_yield(ps[1], t) + SettledYield(Tail(ps), t)

\* C14: a successful claim_yield raises available and total by the yield
\* settled over all open positions and leaves invested unchanged.
C14_ClaimCreditsAvailableAndTotal ==
    [][Committed("claim_yield") =>
          /\ available' = available + SettledYield(positions, now)
          /\ total' = total + SettledYield(positions, now)
          /\ invested' = invested]_vars

\* The position calculate_yield was called on and the time since its last
\* settlement.
YieldPosition == positions[1]
YieldTimeElapsed == now - positions[1].last_yield_claim

\* C15: settled yield is never negative and is > 0 for a position with
\* principal > 0 and elapsed > 0, so a claim_yield at that time raises
\* available and appends a yield record.
C15_YieldPositive ==
    calls = 1 =>
        /\ yield_result >= 0
        /\ (YieldPosition.amount > 0 /\ YieldTimeElapsed > 0) =>
               /\ yield_result > 0
               /\ LET r == claim_yield(Store, Admin, now)
                  IN  /\ r.ok
                      /\ r.st.available > available
                      /\ Len(r.st.yield_history) > Len(yield_history)

\* principal * 500 * elapsed / (31536000 * 10000) floored once; 500 is
\* cancelled against the divisor.
SingleFloor(principal, elapsed) ==
    (principal * elapsed) \div (SECONDS_PER_YEAR * (BPS \div APY))

\* C16: the yield calculate_yield computes is the single floor of
\* principal * 500 * elapsed / (31536000 * 10000) (stated for the inputs
\* whose product principal * elapsed TLC can represent).
C16_YieldIsSingleFloor ==
    (/\ calls = 1
     /\ YieldTimeElapsed > 0 => YieldPosition.amount
                                    <= 2147483647 \div YieldTimeElapsed)
        => yield_result = SingleFloor(YieldPosition.amount, YieldTimeElapsed)

\* C17: for a position last settled exactly one year ago the settled yield
\* is floor(principal * 5 / 100); for principal 1000 it is 50, within 40..60.
C17_OneYearYield ==
    (calls = 1 /\ YieldTimeElapsed = 365 * 24 * 60 * 60) =>
        /\ yield_result = (YieldPosition.amount * 5) \div 100
        /\ YieldPosition.amount = 1000 =>
               yield_result = 50 /\ yield_result >= 40 /\ yield_result <= 60

\* C17 witness: calculate_yield has returned 50 for principal 1000 one year
\* after the position's last settlement.
C17_Witness ==
    /\ calls = 1
    /\ YieldPosition.amount = 1000
    /\ YieldTimeElapsed = 365 * 24 * 60 * 60
    /\ YieldPosition.last_yield_claim > 0
    /\ yield_result = 50

\* C18: on a treasury just initialized with min_liquidity_ratio 2000 and
\* auto_invest_threshold 1000, a deposit of 3000 or of 5000 gives total and
\* available the amount, invested 0 and no position.
C18_DepositWithoutAutoInvest ==
    (/\ last.op = "initialize"
     /\ config.min_liquidity_ratio = 2000
     /\ config.auto_invest_threshold = 1000) =>
        \A amount \in {3000, 5000} :
            LET r == deposit_op(Store, Depositor, amount, now)
            IN  /\ r.ok
                /\ r.st.total = amount
                /\ r.st.available = amount
                /\ r.st.invested = 0
                /\ r.st.positions = <<>>

\* C19: after initialize with min_liquidity_ratio 5000 and
\* auto_invest_threshold 1000 and deposit(2000), invest_idle_funds(admin,
\* 1500) fails with LiquidityBreach and changes nothing.
C19_InvestBreachesLiquidity ==
    ~initialized =>
        LET s0 == initialize_op(Store, Admin, Pool, 5000, 1000,
                                YieldClaimFrequency).st
            s1 == deposit_op(s0, Depositor, 2000, now).st
            r == invest_idle_funds(s1, Admin, 1500, now)
        IN  ~r.ok /\ r.err = "LiquidityBreach" /\ r.st = s1

\* C20: a successful invest_idle_funds(admin, amount) appends one position
\* with principal amount, both timestamps now and no accumulated yield,
\* moves amount from available to invested, and leaves total, the positions
\* there were, the allocations and the yield history unchanged.
C20_InvestFrame ==
    [][Committed("invest_idle_funds") =>
          /\ positions' =
                 Append(positions,
                        [amount |-> last'.amount,
                         pool_address |-> config.liquidity_pool_address,
                         invested_at |-> now, last_yield_claim |-> now,
                         accumulated_yield |-> 0])
          /\ invested' = invested + last'.amount
          /\ available' = available - last'.amount
          /\ total' = total
          /\ allocations' = allocations
          /\ yield_history' = yield_history]_vars

\* C20 witness: an investment made after the clock has moved, into a store
\* that already held a position.
C20_Witness ==
    /\ last.op = "invest_idle_funds"
    /\ now > 0
    /\ Len(positions) >= 2
    /\ positions[Len(positions)].amount = last.amount
    /\ positions[Len(positions)].invested_at = now
    /\ positions[1].invested_at < now

\* C21: a successful divest_funds(admin, amount, i) lowers the principal of
\* position i by amount (the position leaves the store when nothing is
\* left), lowers invested by amount and raises available by amount plus the
\* yield settled on position i, which is nothing when no time has passed
\* since its last settlement; the other positions are unchanged.
C21_DivestEffect ==
    [][Committed("divest_funds") =>
          LET i == last'.index + 1
              amount == last'.amount
              settled == calculate_yield(positions[i], now)
          IN  /\ invested' = invested - amount
              /\ available' = available + amount + settled
              /\ now = positions[i].last_yield_claim =>
                     available' = available + amount
              /\ IF positions[i].amount = amount
                 THEN positions' = RemoveAt(positions, i)
                 ELSE /\ Len(positions') = Len(positions)
                      /\ positions'[i].amount = positions[i].amount - amount
                      /\ \A k \in 1..Len(positions) :
                             k # i => positions'[k] = positions[k]]_vars

\* C21 witness: a divestment from one of several positions has settled
\* yield on the position it left in the store (nothing else has settled
\* yield so far).
C21_Witness ==
    /\ last.op = "divest_funds"
    /\ Len(positions) >= 2
    /\ last.index < Len(positions)
    /\ positions[last.index + 1].accumulated_yield > 0
    /\ yield_claim_counter = 0
    /\ allocations = <<>>

\* C22: divest_funds(admin, amount, i) of a positive amount fails with
\* InvalidIndex when i is not the index of a position and with
\* ExceedsPrincipal when amount is more than the principal of position i,
\* and changes nothing.
C22_DivestRejects ==
    initialized =>
        \A amount \in DivestAmounts \cup InvestAmounts \cup GrantAmounts :
            /\ \A i \in Len(positions)..(Len(positions) + 1) :
                   LET r == divest_funds(Store, config.admin, amount, i, now)
                   IN  ~r.ok /\ r.err = "InvalidIndex" /\ r.st = Store
            /\ \A i \in 0..(Len(positions) - 1) :
                   amount > positions[i + 1].amount =>
                       LET r == divest_funds(Store, config.admin, amount, i,
                                             now)
                       IN  ~r.ok /\ r.err = "ExceedsPrincipal" /\ r.st = Store

\* C22 witness: a position that a divestment has left with less principal
\* than the next divestment asks for.
C22_Witness ==
    /\ last.op = "divest_funds"
    /\ last.index < Len(positions)
    /\ \E amount \in DivestAmounts :
           /\ amount > positions[last.index + 1].amount
           /\ divest_funds(Store, config.admin, amount, last.index, now).err
                  = "ExceedsPrincipal"
           /\ divest_funds(Store, config.admin, amount, Len(positions),
                           now).err = "InvalidIndex"

\* C23: allocate_grant(admin, grantee, amount) with 0 < amount <= available
\* succeeds, lowers available by amount, appends one Approved allocation of
\* amount to grantee, and leaves invested, total and the positions unchanged.
C23_AllocateFromAvailable ==
    /\ [](\A amount \in GrantAmounts, grantee \in Grantees :
              (initialized /\ 0 < amount /\ amount <= available) =>
                  LET r == allocate_grant(Store, config.admin, grantee,
                                          amount, now)
                  IN  /\ r.ok
                      /\ r.st.allocations[Len(r.st.allocations)].grantee
                             = grantee)
    /\ [][(Committed("allocate_grant") /\ last'.amount <= available) =>
             /\ available' = available - last'.amount
             /\ Len(allocations') = Len(allocations) + 1
             /\ SubSeq(allocations', 1, Len(allocations)) = allocations
             /\ allocations'[Len(allocations')].amount = last'.amount
             /\ allocations'[Len(allocations')].status = "Approved"
             /\ allocations'[Len(allocations')].grantee \in Grantees
             /\ invested' = invested
             /\ total' = total
             /\ positions' = positions]_vars

\* C23 witness: a grant allocated out of the available balance, next to an
\* open position.
C23_Witness ==
    /\ last.op = "allocate_grant"
    /\ ~last.el.ran
    /\ available >= 0
    /\ positions # <<>>
    /\ allocations[Len(allocations)].amount = last.amount

\* C24: deposit(depositor, amount) with amount <= 0 fails with InvalidAmount
\* and leaves total, available, invested and the positions unchanged.
C24_DepositRejectsNonPositive ==
    \A amount \in {-100, -1, 0} :
        LET r == deposit_op(Store, Depositor, amount, now)
        IN  ~r.ok /\ r.err = "InvalidAmount" /\ r.st = Store

\* C24 witness: a funded treasury that accepts a deposit and refuses one
\* of 0.
C24_Witness ==
    /\ last.op = "deposit"
    /\ total > 0
    /\ \E amount \in DepositAmounts : deposit_op(Store, Depositor, amount, now).ok
    /\ deposit_op(Store, Depositor, 0, now).err = "InvalidAmount"

\* C25: the first initialize stores the given config with total, available
\* and invested 0 and no position, allocation or yield record; a later
\* initialize fails with AlreadyInitialized and changes nothing; no other
\* operation changes the stored config.
C25_ConfigWriteOnce ==
    /\ [](\A c \in Configs :
              LET r == initialize_op(Store, Admin, Pool, c[1], c[2],
                                     YieldClaimFrequency)
              IN  IF initialized
                  THEN ~r.ok /\ r.err = "AlreadyInitialized" /\ r.st = Store
                  ELSE /\ r.ok
                       /\ r.st.config =
                              [admin |-> Admin,
                               liquidity_pool_address |-> Pool,
                               min_liquidity_ratio |-> c[1],
                               auto_invest_threshold |-> c[2],
                               yield_claim_frequency |-> YieldClaimFrequency]
                       /\ r.st.total = 0
                       /\ r.st.available = 0
                       /\ r.st.invested = 0
                       /\ r.st.positions = <<>>
                       /\ r.st.allocations = <<>>
                       /\ r.st.yield_history = <<>>)
    /\ [][/\ Committed("initialize") => ~initialized
          /\ initialized => initialized' /\ config' = config]_vars

\* C25 witness: a treasury initialized with a given ratio and threshold
\* that has since been used and still holds that config.
C25_Witness ==
    /\ initialized
    /\ config.min_liquidity_ratio = 6000
    /\ config.auto_invest_threshold = 20
    /\ last.op = "allocate_grant"
    /\ total > 0

\* C26: claim_yield(admin) on an empty position store succeeds and leaves
\* total, available, invested and the yield history unchanged.
C26_ClaimOnEmptyStore ==
    /\ []((initialized /\ positions = <<>>) =>
              claim_yield(Store, config.admin, now).ok)
    /\ [][(Committed("claim_yield") /\ positions = <<>>) =>
             /\ total' = total
             /\ available' = available
             /\ invested' = invested
             /\ yield_history' = yield_history
             /\ positions' = <<>>]_vars

\* C26 witness: a claim made after the last position was closed, with
\* records of earlier claims in the history.
C26_Witness ==
    /\ last.op = "claim_yield"
    /\ positions = <<>>
    /\ yield_history # <<>>
    /\ total > 0

\* C28: a successful deposit that leaves available >= auto_invest_threshold,
\* where investing floor(available / 2) keeps the minimum liquidity, creates
\* one position with that principal, so that afterwards invested > 0 and
\* available > 0, and raises total by the deposited amount only; a deposit
\* that leaves available below the threshold creates no position.
C28_AutoInvestOnDeposit ==
    [][Committed("deposit") =>
          LET s1 == [Store EXCEPT !.total = @ + last'.amount,
                                  !.available = @ + last'.amount]
              half == Div(s1.available, 2)
          IN  /\ total' = total + last'.amount
              /\ (/\ s1.available >= config.auto_invest_threshold
                  /\ s1.available - half
                         >= Div(s1.total * config.min_liquidity_ratio, BPS)) =>
                     /\ Len(positions') = Len(positions) + 1
                     /\ SubSeq(positions', 1, Len(positions)) = positions
                     /\ positions'[Len(positions')].amount = half
                     /\ invested' > 0
                     /\ available' > 0
              /\ s1.available < config.auto_invest_threshold =>
                     positions' = positions]_vars

\* C30: allocate_grant(admin, grantee, amount) with available < amount <=
\* available + invested, at a time when no position has accrued yield,
\* lowers invested and the principal of the open positions by
\* amount - available and leaves available at 0.
C30_AllocateRaisesLiquidity ==
    [][(/\ Committed("allocate_grant")
        /\ available < last'.amount
        /\ last'.amount <= available + invested
        /\ \A k \in 1..Len(positions) :
               calculate_yield(positions[k], now) = 0) =>
          /\ invested' = invested - (last'.amount - available)
          /\ SumAmounts(positions')
                 = SumAmounts(positions) - (last'.amount - available)
          /\ available' = 0]_vars

\* C27: a view function leaves every persisted entry as it was, and called
\* again with no committed invocation in between, whatever the clock has
\* done, it returns what it returned before.
C27_ViewsReadOnly ==
    [][(calls' = calls /\ view'.op # "none") =>
          /\ Store' = Store
          /\ view.op = view'.op => view' = view]_vars

\* C27 witness: get_accumulated_yield has returned the yield settled so far
\* at a time when a position has accrued more that is not settled yet.
C27_Witness ==
    /\ view.op = "get_accumulated_yield"
    /\ view.number > 0
    /\ view.number = get_accumulated_yield(Store)
    /\ \E k \in 1..Len(positions) : calculate_yield(positions[k], now) > 0

\* C29: once revoke_proof has succeeded on a proof, the proof stays revoked
\* and not verified in every later state; verify_proof on it returns false
\* and writes nothing, is_proof_valid returns false, and a second
\* revoke_proof on it fails.
C29_RevocationPermanent ==
    /\ [](\A proof_id \in 1..Len(proofs) :
              proofs[proof_id].revoked =>
                  /\ ~proofs[proof_id].verified
                  /\ is_proof_valid(PStore, proof_id).ret = FALSE
                  /\ \A a \in ProofAddresses :
                         /\ LET r == verify_proof(PStore, a, proof_id)
                            IN  r.ok /\ r.ret = FALSE /\ r.st = PStore
                         /\ ~revoke_proof(PStore, a, proof_id, Reason).ok)
    /\ [][\A proof_id \in 1..Len(proofs) :
              proofs[proof_id].revoked =>
                  /\ proof_id <= Len(proofs')
                  /\ proofs'[proof_id].revoked
                  /\ ~proofs'[proof_id].verified]_vars

\* C31: yield is realized at most once per position and time interval.  If
\* divest_funds at time t leaves position i open, or liquidity enforcement
\* inside allocate_grant at time t leaves the first position open, and the
\* operation settled a positive yield on it, the position's last_yield_claim
\* is t afterwards; and a divest_funds that follows at the same t credits
\* its amount only, a claim_yield that follows credits nothing for it.
C31_YieldSettledOnce ==
    initialized =>
        /\ \A i \in 1..Len(positions), amount \in DivestAmounts :
               LET first == divest_funds(Store, Admin, amount, i - 1, now)
                   after == first.st
               IN  (first.ok /\ Len(after.positions) = Len(positions)) =>
                       /\ calculate_yield(positions[i], now) > 0 =>
                              after.positions[i].last_yield_claim = now
                       /\ calculate_yield(after.positions[i], now) = 0
                       /\ \A again \in DivestAmounts :
                              LET second == divest_funds(after, Admin, again,
                                                         i - 1, now)
                              IN  second.ok =>
                                      second.st.available
                                          = after.available + again
                       /\ claim_yield(after, Admin, now).st.positions[i]
                              = after.positions[i]
        /\ \A amount \in GrantAmounts :
               LET first == allocate_grant(Store, Admin, AnyGrantee, amount,
                                           now)
                   after == first.st
               IN  (/\ first.ok
                    /\ first.el.ran
                    /\ first.el.yield > 0
                    /\ Len(after.positions) = Len(positions)) =>
                       /\ after.positions[1].last_yield_claim = now
                       /\ calculate_yield(after.positions[1], now) = 0

\* C32: in every mutating operation every check that can make the call fail
\* is evaluated before the first write: no invocation, on any reachable
\* storage and with any argument, panics after it has written an entry.
C32_ChecksBeforeWrites ==
    /\ \A amount \in DepositAmounts :
           ~deposit_op(Store, Depositor, amount, now).undone
    /\ \A caller \in Callers :
           /\ \A amount \in InvestAmounts \cup {0} :
                  ~invest_idle_funds(Store, caller, amount, now).undone
           /\ \A amount \in DivestAmounts \cup {0},
                 position_index \in 0..Len(positions) :
                  ~divest_funds(Store, caller, amount, position_index,
                                now).undone
           /\ \A amount \in GrantAmounts \cup {0} :
                  ~allocate_grant(Store, caller, AnyGrantee, amount,
                                  now).undone
           /\ \A allocation_id \in 0..Len(allocations) :
                  ~withdraw_grant(Store, caller, allocation_id, now).undone
           /\ ~claim_yield(Store, caller, now).undone

\* C33: the yield history is append-only.  Every record has amount > 0 and
\* apy = 500, and every step keeps each existing record at its index with
\* its contents, so the length never decreases.
C33_YieldHistoryAppendOnly ==
    /\ [](\A i \in 1..Len(yield_history) :
              yield_history[i].amount > 0 /\ yield_history[i].apy = 500)
    /\ [][/\ Len(yield_history') >= Len(yield_history)
          /\ \A i \in 1..Len(yield_history) :
                 yield_history'[i] = yield_history[i]]_vars

\* C33 witness: two records, written by two claim_yield calls, are both in
\* the history after a later invocation of another operation.
C33_Witness ==
    /\ Len(yield_history) >= 2
    /\ yield_history[1].claimed_at < yield_history[2].claimed_at
    /\ last.op \notin {"claim_yield", "none"}

\* C34: the yield history is a complete audit trail.  The sum of the record
\* amounts and the yield credited to available are both 0 at the start, so
\* they are equal in every state exactly if every step adds the same to
\* both: what claim_yield and divest_funds add to available beyond the
\* divested principal, and the yield liquidity enforcement settles inside
\* allocate_grant and withdraw_grant, is the growth of the record sum.
C34_HistoryIsAuditTrail ==
    [][LET recorded ==
               SumAmounts(yield_history') - SumAmounts(yield_history)
       IN  /\ Committed("claim_yield") => available' - available = recorded
           /\ Committed("divest_funds") =>
                  available' - available - last'.amount = recorded
           /\ (Committed("allocate_grant") \/ Committed("withdraw_grant")) =>
                  last'.el.yield = recorded]_vars

\* C35: allocation lifecycle.  No allocation is ever Pending or Expired; a
\* step appends allocations with status Approved and otherwise keeps every
\* allocation at its index with its grantee, amount and time, changing a
\* status from Approved to Disbursed only.
C35_AllocationLifecycle ==
    /\ [](\A i \in 1..Len(allocations) :
              allocations[i].status \in {"Approved", "Disbursed"})
    /\ [][/\ Len(allocations') >= Len(allocations)
          /\ \A i \in 1..Len(allocations) :
                 /\ allocations'[i].grantee = allocations[i].grantee
                 /\ allocations'[i].amount = allocations[i].amount
                 /\ allocations'[i].allocated_at = allocations[i].allocated_at
                 /\ \/ allocations'[i].status = allocations[i].status
                    \/ /\ allocations[i].status = "Approved"
                       /\ allocations'[i].status = "Disbursed"
          /\ \A i \in (Len(allocations) + 1)..Len(allocations') :
                 allocations'[i].status = "Approved"]_vars

\* C35 witness: a first allocation has been disbursed, a second one of
\* another amount was created after it and is Approved.
C35_Witness ==
    /\ Len(allocations) = 2
    /\ allocations[1].status = "Disbursed"
    /\ allocations[2].status = "Approved"
    /\ allocations[1].amount # allocations[2].amount
    /\ last.op = "allocate_grant"

\* The drain of positions ps in store order for a need: each position gives
\* up min(principal, remaining need), the remaining need drops by what it
\* gave up, a fully drained position is removed, and a position reached
\* when the need is met is kept as it is.
RECURSIVE DrainInOrder(_, _)
DrainInOrder(ps, need) ==
    IF ps = <<>> THEN <<>>
    ELSE LET position == ps[1]
             raise == Min(position.amount, need)
             kept ==
                 IF need <= 0
                 THEN <<[amount |-> position.amount, touched |-> FALSE,
                         position |-> position]>>
                 ELSE IF raise < position.amount
                 THEN <<[amount |-> position.amount - raise,
                         touched |-> TRUE, position |-> position]>>
                 ELSE <<>>
         IN  kept \o DrainInOrder(Tail(ps), IF need <= 0 THEN need
                                            ELSE need - raise)

\* C36: liquidity enforcement drains positions in store order.  When
\* allocate_grant or withdraw_grant has run the walk of ensure_liquidity,
\* the positions it leaves are those of the drain in store order: the same
\* principals at the same indices, and every position after the point where
\* the need was met unchanged.
C36_DrainInStoreOrder ==
    [][((Committed("allocate_grant") \/ Committed("withdraw_grant"))
        /\ last'.el.ran) =>
          LET expected == DrainInOrder(positions, last'.el.needed)
          IN  /\ Len(positions') = Len(expected)
              /\ \A k \in 1..Len(expected) :
                     /\ positions'[k].amount = expected[k].amount
                     /\ ~expected[k].touched =>
                            positions'[k] = expected[k].position]_vars

\* C37: divest_funds(admin, amount, i) with amount equal to the principal of
\* position i removes exactly that position: the store shrinks by one, the
\* positions before it keep their index and those after it move down by one,
\* unchanged.  With a smaller amount the store keeps its length and every
\* other position stays at its index, unchanged.
C37_DivestRemovesExactlyOne ==
    [][Committed("divest_funds") =>
          LET i == last'.index + 1
              n == Len(positions)
          IN  IF last'.amount = positions[i].amount
              THEN /\ Len(positions') = n - 1
                   /\ \A k \in 1..(i - 1) : positions'[k] = positions[k]
                   /\ \A k \in i..(n - 1) : positions'[k] = positions[k + 1]
              ELSE /\ Len(positions') = n
                   /\ \A k \in (1..n) \ {i} : positions'[k] = positions[k]
                   /\ positions'[i].amount
                          = positions[i].amount - last'.amount]_vars

\* C37 witness: of three positions of 10 invested at times 0, Tick and
\* 2 * Tick (deposits of 20, 10 and 10), divest_funds(admin, 10, 1) has
\* removed the middle one.
C37_Witness ==
    /\ last.op = "divest_funds"
    /\ last.index = 1
    /\ last.amount = 10
    /\ total = 40
    /\ Len(positions) = 2
    /\ positions[1].invested_at = 0
    /\ positions[2].invested_at = 2 * Tick
    /\ positions[1].amount = 10
    /\ positions[2].amount = 10

\* C38: claim_yield is idempotent at a fixed timestamp.  A claim_yield that
\* commits when the invocation committed before it was a claim_yield at the
\* same ledger time (the stored LastYieldClaim is the current time, and the
\* clock only moves forward) leaves total, available, invested, every
\* position and the yield history as they were.
C38_ClaimYieldIdempotent ==
    [][(/\ Committed("claim_yield")
        /\ last.op = "claim_yield"
        /\ last_yield_claim = now) =>
          UNCHANGED <<total, available, invested, positions,
                      yield_history>>]_vars

\* C38 witness: two claim_yield calls have committed at the time of the one
\* record in the history, which settled the yield of a position that is
\* still open.
C38_Witness ==
    /\ last.op = "claim_yield"
    /\ yield_claim_counter = 2
    /\ last_yield_claim = now
    /\ Len(yield_history) = 1
    /\ yield_history[1].claimed_at = now
    /\ positions # <<>>
    /\ positions[1].last_yield_claim = now
    /\ positions[1].accumulated_yield = yield_history[1].amount

\* C39: solvency.  The sum of the amounts of all allocations is at most the
\* sum of the deposited amounts plus the yield realized so far.  Only deposit
\* writes TotalBalance after initialize, adding its amount, so total is the
\* sum of the deposited amounts; and while the ledger time is 0 no yield has
\* accrued, so there the allocations are bounded by total alone.
C39_Solvency == now = 0 => SumAmounts(allocations) <= total

\* C40: every Approved allocation can always be withdrawn.  In every state
\* withdraw_grant called for an Approved allocation by its own grantee
\* succeeds, whatever the balances and positions are; and under fair
\* scheduling of that call every allocation is eventually Disbursed.
C40_ApprovedIsWithdrawable ==
    /\ [](\A i \in 1..Len(allocations) :
              allocations[i].status = "Approved" =>
                  withdraw_grant(Store, allocations[i].grantee, i - 1,
                                 now).ok)
    /\ [](Len(allocations) <= FairAllocations)
    /\ \A i \in 1..FairAllocations :
           (i <= Len(allocations))
               ~> (i <= Len(allocations)
                   /\ allocations[i].status = "Disbursed")

\* C40 witness: an allocation larger than everything the treasury held has
\* been withdrawn: nothing is invested, available is negative and every
\* allocation is Disbursed.
C40_Witness ==
    /\ last.op = "withdraw_grant"
    /\ allocations # <<>>
    /\ \A i \in 1..Len(allocations) : allocations[i].status = "Disbursed"
    /\ positions = <<>>
    /\ total > 0
    /\ available < 0

=============================================================================
